---- MODULE Spec2Model ----
(***************************************************************************)
(* Think-Space backend (src/backend/main.py): the in-memory session store  *)
(* `conversations` and the handlers /brainstorm, /clear-session, / and     *)
(* /test that read and write it.                                           *)
(*                                                                         *)
(* brainstorm and clear_session are `async def` handlers that contain no   *)
(* await: the call client.chat.completions.create is the synchronous Groq  *)
(* client, so it blocks the event loop.  While a /brainstorm request is    *)
(* inside the upstream call no other async handler runs; only the plain    *)
(* `def` handlers health_check and test_endpoint, which Starlette runs in  *)
(* worker threads, can execute.  pc records that position.                 *)
(***************************************************************************)
EXTENDS Integers, Sequences, FiniteSets, TLC

VARIABLES
    client,          \* module global `client`: None or the Groq client
    groq_model_env,  \* value of the environment variable GROQ_MODEL (None when unset)
    conversations,   \* module global `conversations`: session id -> list of messages
    uuidCount,       \* how many identifiers uuid.uuid4() has produced so far
    pc,              \* "idle", or "upstream" while brainstorm is inside create(...)
    req,             \* locals of the brainstorm call that is inside create(...)
    resp,            \* the last HTTP response that a handler produced
    turns            \* per stored session: turns (user + reply) appended since creation

vars == <<client, groq_model_env, conversations, uuidCount, pc, req, resp, turns>>

----------------------------------------------------------------------------
(* Bounds of the model *)

MaxUuid == 2      \* uuid4() is called at most this many times
MaxMsgs == 3      \* a request is accepted while fewer messages than this are stored

(* Values *)

None == "<None>"                      \* Python None (absent session_id, unset variable)
Prompts == {"", "idea A"}   \* Query.prompt: any str, the empty one included
Replies == {"reply 1", "reply 2"}     \* completion.choices[0].message.content
CallerIds == {"x"}                    \* session ids invented by a caller
CustomModels == {"custom-model"}      \* values GROQ_MODEL may be set to

API_KEY_ENV == "GROQ_API_KEY"
DEFAULT_MODEL == "llama-3.3-70b-versatile"
SYSTEM_PROMPT == "<SYSTEM_PROMPT>"

Uuid(n) == "uuid-" \o ToString(n)     \* the n-th value of str(uuid.uuid4())
Issued(n) == {Uuid(i) : i \in 1..n}

Message(role, content) == [role |-> role, content |-> content]
SystemMessage == Message("system", SYSTEM_PROMPT)

----------------------------------------------------------------------------
(* Error texts str(e), as sequences of characters *)

ErrModelDecommissioned ==
    <<"m","o","d","e","l"," ","d","e","c","o","m","m","i","s","s","i","o","n","e","d">>
ErrModelNotFoundCaps ==
    <<"M","o","d","e","l"," ","N","o","t"," ","F","o","u","n","d">>
ErrModelOverloaded ==
    <<"m","o","d","e","l"," ","o","v","e","r","l","o","a","d","e","d">>
ErrHostNotFound ==
    <<"h","o","s","t"," ","n","o","t"," ","f","o","u","n","d">>
ErrIndex ==
    <<"l","i","s","t"," ","i","n","d","e","x"," ","o","u","t"," ","o","f"," ","r","a","n","g","e">>

ErrTexts == {ErrModelDecommissioned, ErrModelNotFoundCaps, ErrModelOverloaded, ErrHostNotFound}

StrModel == <<"m","o","d","e","l">>
StrNotFound == <<"n","o","t"," ","f","o","u","n","d">>
StrDecommissioned == <<"d","e","c","o","m","m","i","s","s","i","o","n","e","d">>

UpperLetters == <<"A","B","C","D","E","F","G","H","I","J","K","L","M",
                  "N","O","P","Q","R","S","T","U","V","W","X","Y","Z">>
LowerLetters == <<"a","b","c","d","e","f","g","h","i","j","k","l","m",
                  "n","o","p","q","r","s","t","u","v","w","x","y","z">>

LowerChar(c) ==
    IF \E i \in 1..Len(UpperLetters) : UpperLetters[i] = c
    THEN LowerLetters[CHOOSE i \in 1..Len(UpperLetters) : UpperLetters[i] = c]
    ELSE c

\* mutant: the error text is matched without .lower()
Lower_identity(s) == s

\* str.lower()
Lower(s) == [i \in 1..Len(s) |-> LowerChar(s[i])]

\* `needle in hay` on Python strings
Contains(hay, needle) ==
    \E i \in 1..(Len(hay) - Len(needle) + 1) :
        SubSeq(hay, i, i + Len(needle) - 1) = needle

----------------------------------------------------------------------------
(* HTTP responses *)

NoDetail == [fmt |-> "", arg |-> "", err_str |-> <<>>]

\* op, status and the body fields are what the caller receives; sid_in echoes the
\* argument of clear_session; upstream and raised record what the upstream call of
\* the request did ("not called", "reply", "raise", "no_choice") and the text raised;
\* calls is the number of times the request invoked client.chat.completions.create
NoResp ==
    [op |-> "none", status |-> 0, detail |-> NoDetail, response |-> "",
     session_id |-> None, message |-> "", sid_in |-> None, count |-> 0, ready |-> FALSE,
     upstream |-> "not called", raised |-> <<>>, calls |-> 0]

NoReq ==
    [prompt |-> "", sid_in |-> None, session_id |-> None, model |-> "", messages |-> <<>>,
     calls |-> 0]

\* raise HTTPException(status_code=status, detail=detail) out of brainstorm
HTTPError(status, detail) ==
    [NoResp EXCEPT !.op = "brainstorm", !.status = status, !.detail = detail]

MissingKeyDetail ==
    [fmt |-> "Missing API key: set environment variable {API_KEY_ENV}",
     arg |-> API_KEY_ENV, err_str |-> <<>>]

\* f"Modèle '{model}' non disponible. Erreur: {err_str}" (written without the accent)
ModelUnavailableDetail(model, err_str) ==
    [fmt |-> "Modele '{model}' non disponible. Erreur: {err_str}",
     arg |-> model, err_str |-> err_str]

ServerErrorDetail(err_str) ==
    [fmt |-> "Erreur serveur: {err_str}", arg |-> "", err_str |-> err_str]

----------------------------------------------------------------------------
(* Pieces of brainstorm *)

\* mutant: the `client is None` guard is lost
ClientMissing_never(c) == FALSE

\* `client is None`
ClientMissing(c) == c = None

\* `not session_id`: None and the empty string are both falsy
Falsy(sid) == sid = None \/ sid = ""

\* mutant: a new uuid is generated whatever the caller sent
ResolveId_alwaysFresh(sid_in, n) == Uuid(n + 1)

\* session_id = query.session_id; if not session_id: session_id = str(uuid.uuid4())
ResolveId(sid_in, n) == IF Falsy(sid_in) THEN Uuid(n + 1) ELSE sid_in

\* mutant: a new history is initialised with the system message in it
EnsureSession_withSystem(conv, sid) ==
    IF sid \in DOMAIN conv
    THEN conv
    ELSE [s \in DOMAIN conv \cup {sid} |-> IF s = sid THEN <<SystemMessage>> ELSE conv[s]]

\* mutant: the history is re-initialised without the `not in` test
EnsureSession_reset(conv, sid) ==
    [s \in DOMAIN conv \cup {sid} |-> IF s = sid THEN <<>> ELSE conv[s]]

\* if session_id not in conversations: conversations[session_id] = []
EnsureSession(conv, sid) ==
    IF sid \in DOMAIN conv
    THEN conv
    ELSE [s \in DOMAIN conv \cup {sid} |-> IF s = sid THEN <<>> ELSE conv[s]]

\* mutant: the message is inserted at the head of the list (insert(0, ...))
AppendMessage_front(conv, sid, role, content) ==
    [conv EXCEPT ![sid] = <<Message(role, content)>> \o @]

\* mutant: one list object is shared, so the message lands in every history
AppendMessage_everySession(conv, sid, role, content) ==
    [s \in DOMAIN conv |-> Append(conv[s], Message(role, content))]

\* conversations[session_id].append({"role": role, "content": content})
AppendMessage(conv, sid, role, content) ==
    [conv EXCEPT ![sid] = Append(@, Message(role, content))]

\* model = os.getenv("GROQ_MODEL", "llama-3.3-70b-versatile")
GetModel(env) == IF env = None THEN DEFAULT_MODEL ELSE env

\* mutant: the system message is appended after the history instead of before
BuildMessages_systemLast(conv, sid) == conv[sid] \o <<SystemMessage>>

\* messages = [{"role": "system", "content": SYSTEM_PROMPT}] + conversations[session_id]
BuildMessages(conv, sid) == <<SystemMessage>> \o conv[sid]

\* "model" in err_str.lower() and ("not found" in ... or "decommissioned" in ...)
IsModelError(err_str) ==
    /\ Contains(Lower(err_str), StrModel)
    /\ \/ Contains(Lower(err_str), StrNotFound)
       \/ Contains(Lower(err_str), StrDecommissioned)

\* the except branch of brainstorm
ErrorResponse(model, err_str) ==
    IF IsModelError(err_str)
    THEN HTTPError(400, ModelUnavailableDetail(model, err_str))
    ELSE HTTPError(500, ServerErrorDetail(err_str))

\* mutant: the response carries query.session_id of a request that sent none
SuccessResponse_noSession(content, sid) ==
    [NoResp EXCEPT !.op = "brainstorm", !.status = 200,
                   !.response = content, !.session_id = None]

\* return {"response": resp, "session_id": session_id}
SuccessResponse(content, sid) ==
    [NoResp EXCEPT !.op = "brainstorm", !.status = 200,
                   !.response = content, !.session_id = sid]

\* str(KeyError(sid)), the key being one opaque character here
KeyErrorText(sid) == <<"'", sid, "'">>

\* mutant: the history is emptied, the key stays
DeleteSession_emptied(conv, sid) == [conv EXCEPT ![sid] = <<>>]

\* mutant: conversations.clear() instead of deleting one key
DeleteSession_all(conv, sid) == [s \in {} |-> <<>>]

\* del conversations[session_id]
DeleteSession(conv, sid) == [s \in DOMAIN conv \ {sid} |-> conv[s]]

RECURSIVE SumLen(_, _)
SumLen(conv, S) ==
    IF S = {} THEN 0
    ELSE LET s == CHOOSE t \in S : TRUE
         IN  Len(conv[s]) + SumLen(conv, S \ {s})

TotalMsgs == SumLen(conversations, DOMAIN conversations)

\* what the upstream call can do: return a completion with a content, raise,
\* or return a completion whose `choices` is empty (choices[0] raises IndexError)
Outcomes ==
    [kind : {"reply"}, content : Replies, err : {<<>>}]
    \cup [kind : {"raise"}, content : {""}, err : ErrTexts]
    \cup [kind : {"no_choice"}, content : {""}, err : {ErrIndex}]

----------------------------------------------------------------------------
(* The handlers *)

Init ==
    /\ client \in {None, "Groq"}
    /\ groq_model_env \in {None} \cup CustomModels
    /\ conversations = [s \in {} |-> <<>>]
    /\ uuidCount = 0
    /\ pc = "idle"
    /\ req = NoReq
    /\ resp = NoResp
    /\ turns = [s \in {} |-> 0]

\* mutant: the client test is made after the session is resolved and the user
\* message appended
BrainstormNoClient_afterResolve(prompt, sid_in) ==
    /\ pc = "idle"
    /\ ClientMissing(client)
    /\ TotalMsgs < MaxMsgs
    /\ Falsy(sid_in) => uuidCount < MaxUuid
    /\ LET session_id == ResolveId(sid_in, uuidCount)
           conv1 == EnsureSession(conversations, session_id)
           conv2 == AppendMessage(conv1, session_id, "user", prompt)
       IN  /\ conversations' = conv2
           /\ uuidCount' = IF Falsy(sid_in) THEN uuidCount + 1 ELSE uuidCount
           /\ turns' = [s \in DOMAIN conv2 |-> IF s \in DOMAIN turns THEN turns[s] ELSE 0]
    /\ resp' = HTTPError(500, MissingKeyDetail)
    /\ UNCHANGED <<client, groq_model_env, pc, req>>

\* brainstorm, lines 220-225: no client
BrainstormNoClient(prompt, sid_in) ==
    /\ pc = "idle"
    /\ ClientMissing(client)
    /\ resp' = HTTPError(500, MissingKeyDetail)
    /\ UNCHANGED <<client, groq_model_env, conversations, uuidCount, pc, req, turns>>

\* mutant: the handler awaits the upstream call, so a second request starts while
\* the first is inside it
BrainstormStart_overlapping(prompt, sid_in) ==
    /\ ~ClientMissing(client)
    /\ TotalMsgs < MaxMsgs
    /\ Falsy(sid_in) => uuidCount < MaxUuid
    /\ LET session_id == ResolveId(sid_in, uuidCount)
           conv1 == EnsureSession(conversations, session_id)
           conv2 == AppendMessage(conv1, session_id, "user", prompt)
       IN  /\ conversations' = conv2
           /\ uuidCount' = IF Falsy(sid_in) THEN uuidCount + 1 ELSE uuidCount
           /\ turns' = [s \in DOMAIN conv2 |-> IF s \in DOMAIN turns THEN turns[s] ELSE 0]
           /\ req' = [prompt |-> prompt, sid_in |-> sid_in, session_id |-> session_id,
                      model |-> GetModel(groq_model_env),
                      messages |-> BuildMessages(conv2, session_id),
                      calls |-> 1]
    /\ pc' = "upstream"
    /\ UNCHANGED <<client, groq_model_env, resp>>

\* brainstorm, lines 227-258: up to the entry into the blocking upstream call
BrainstormStart(prompt, sid_in) ==
    /\ pc = "idle"
    /\ ~ClientMissing(client)
    /\ TotalMsgs < MaxMsgs
    /\ Falsy(sid_in) => uuidCount < MaxUuid
    /\ LET session_id == ResolveId(sid_in, uuidCount)
           conv1 == EnsureSession(conversations, session_id)
           conv2 == AppendMessage(conv1, session_id, "user", prompt)
       IN  /\ conversations' = conv2
           /\ uuidCount' = IF Falsy(sid_in) THEN uuidCount + 1 ELSE uuidCount
           /\ turns' = [s \in DOMAIN conv2 |-> IF s \in DOMAIN turns THEN turns[s] ELSE 0]
           /\ req' = [prompt |-> prompt, sid_in |-> sid_in, session_id |-> session_id,
                      model |-> GetModel(groq_model_env),
                      messages |-> BuildMessages(conv2, session_id),
                      calls |-> 1]
    /\ pc' = "upstream"
    /\ UNCHANGED <<client, groq_model_env, resp>>

\* mutant: a raised upstream error is retried once before it is surfaced
BrainstormFinish_retry(outcome) ==
    /\ pc = "upstream"
    /\ IF outcome.kind = "raise" /\ req.calls < 2
       THEN /\ req' = [req EXCEPT !.calls = @ + 1]
            /\ UNCHANGED <<conversations, turns, resp, pc>>
       ELSE /\ IF outcome.kind = "reply"
               THEN /\ conversations' = AppendMessage(conversations, req.session_id,
                                                      "assistant", outcome.content)
                    /\ turns' = [turns EXCEPT ![req.session_id] = @ + 1]
                    /\ resp' = [SuccessResponse(outcome.content, req.session_id)
                                   EXCEPT !.upstream = outcome.kind, !.calls = req.calls]
               ELSE /\ resp' = [ErrorResponse(req.model, outcome.err)
                                   EXCEPT !.upstream = outcome.kind, !.calls = req.calls,
                                          !.raised = IF outcome.kind = "raise"
                                                     THEN outcome.err ELSE <<>>]
                    /\ UNCHANGED <<conversations, turns>>
            /\ pc' = "idle"
            /\ req' = NoReq
    /\ UNCHANGED <<client, groq_model_env, uuidCount>>

\* mutant: the except branch removes the user message of the failed request
BrainstormFinish_rollback(outcome) ==
    /\ pc = "upstream"
    /\ IF outcome.kind = "reply"
       THEN /\ conversations' = AppendMessage(conversations, req.session_id,
                                              "assistant", outcome.content)
            /\ turns' = [turns EXCEPT ![req.session_id] = @ + 1]
            /\ resp' = [SuccessResponse(outcome.content, req.session_id)
                           EXCEPT !.upstream = outcome.kind, !.calls = req.calls]
       ELSE /\ conversations' =
                   [conversations EXCEPT ![req.session_id] = SubSeq(@, 1, Len(@) - 1)]
            /\ resp' = [ErrorResponse(req.model, outcome.err)
                           EXCEPT !.upstream = outcome.kind, !.calls = req.calls,
                                  !.raised = IF outcome.kind = "raise"
                                             THEN outcome.err ELSE <<>>]
            /\ UNCHANGED turns
    /\ pc' = "idle"
    /\ req' = NoReq
    /\ UNCHANGED <<client, groq_model_env, uuidCount>>

\* brainstorm, lines 258-293: the upstream call returns or raises
BrainstormFinish(outcome) ==
    /\ pc = "upstream"
    /\ IF outcome.kind = "reply"
       THEN IF req.session_id \in DOMAIN conversations
            THEN /\ conversations' = AppendMessage(conversations, req.session_id,
                                                   "assistant", outcome.content)
                 /\ turns' = [turns EXCEPT ![req.session_id] = @ + 1]
                 /\ resp' = [SuccessResponse(outcome.content, req.session_id)
                                EXCEPT !.upstream = outcome.kind, !.calls = req.calls]
            ELSE /\ resp' = [ErrorResponse(req.model, KeyErrorText(req.session_id))
                                EXCEPT !.upstream = outcome.kind, !.calls = req.calls]
                 /\ UNCHANGED <<conversations, turns>>
       ELSE /\ resp' = [ErrorResponse(req.model, outcome.err)
                           EXCEPT !.upstream = outcome.kind, !.calls = req.calls,
                                  !.raised = IF outcome.kind = "raise"
                                             THEN outcome.err ELSE <<>>]
            /\ UNCHANGED <<conversations, turns>>
    /\ pc' = "idle"
    /\ req' = NoReq
    /\ UNCHANGED <<client, groq_model_env, uuidCount>>

\* mutant: `del conversations[session_id]` without the `in` test, so an unknown
\* identifier raises KeyError and the request ends with an internal server error
ClearSession_unchecked(session_id) ==
    /\ pc = "idle"
    /\ IF session_id \in DOMAIN conversations
       THEN /\ conversations' = [s \in DOMAIN conversations \ {session_id} |-> conversations[s]]
            /\ turns' = [s \in DOMAIN turns \ {session_id} |-> turns[s]]
            /\ resp' = [NoResp EXCEPT !.op = "clear-session", !.status = 200,
                                      !.message = "Session cleared", !.sid_in = session_id]
       ELSE /\ resp' = [NoResp EXCEPT !.op = "clear-session", !.status = 500,
                                      !.sid_in = session_id]
            /\ UNCHANGED <<conversations, turns>>
    /\ UNCHANGED <<client, groq_model_env, uuidCount, pc, req>>

\* mutant: the handler of /brainstorm awaits the upstream call, so clear_session runs
\* while a request is inside it
ClearSession_concurrent(session_id) ==
    /\ IF session_id \in DOMAIN conversations
       THEN /\ conversations' = [s \in DOMAIN conversations \ {session_id} |-> conversations[s]]
            /\ turns' = [s \in DOMAIN turns \ {session_id} |-> turns[s]]
            /\ resp' = [NoResp EXCEPT !.op = "clear-session", !.status = 200,
                                      !.message = "Session cleared", !.sid_in = session_id]
       ELSE /\ resp' = [NoResp EXCEPT !.op = "clear-session", !.status = 200,
                                      !.message = "Session not found", !.sid_in = session_id]
            /\ UNCHANGED <<conversations, turns>>
    /\ UNCHANGED <<client, groq_model_env, uuidCount, pc, req>>

\* clear_session, lines 296-303
ClearSession(session_id) ==
    /\ pc = "idle"
    /\ IF session_id \in DOMAIN conversations
       THEN /\ conversations' = DeleteSession(conversations, session_id)
            /\ turns' = [s \in DOMAIN turns \ {session_id} |-> turns[s]]
            /\ resp' = [NoResp EXCEPT !.op = "clear-session", !.status = 200,
                                      !.message = "Session cleared", !.sid_in = session_id]
       ELSE /\ resp' = [NoResp EXCEPT !.op = "clear-session", !.status = 200,
                                      !.message = "Session not found", !.sid_in = session_id]
            /\ UNCHANGED <<conversations, turns>>
    /\ UNCHANGED <<client, groq_model_env, uuidCount, pc, req>>

\* health_check, lines 306-313 (a worker thread: runs whatever pc is)
HealthCheck ==
    /\ resp' = [NoResp EXCEPT !.op = "health", !.status = 200, !.message = "online",
                              !.ready = (client # None),
                              !.count = Cardinality(DOMAIN conversations)]
    /\ UNCHANGED <<client, groq_model_env, conversations, uuidCount, pc, req, turns>>

\* test_endpoint, lines 316-322 (a worker thread: runs whatever pc is)
TestEndpoint ==
    /\ resp' = [NoResp EXCEPT !.op = "test", !.status = 200,
                              !.message = "Backend fonctionne!",
                              !.ready = (client # None),
                              !.count = Cardinality(DOMAIN conversations)]
    /\ UNCHANGED <<client, groq_model_env, conversations, uuidCount, pc, req, turns>>

\* session ids a caller can send: none, the empty string, an invented one, or one
\* that uuid4() has already produced
BrainstormIds == {None, ""} \cup CallerIds \cup Issued(uuidCount)
ClearIds == {""} \cup CallerIds \cup Issued(uuidCount)

Next ==
    \/ \E p \in Prompts, s \in BrainstormIds : BrainstormNoClient(p, s)
    \/ \E p \in Prompts, s \in BrainstormIds : BrainstormStart(p, s)
    \/ \E o \in Outcomes : BrainstormFinish(o)
    \/ \E s \in ClearIds : ClearSession(s)
    \/ HealthCheck
    \/ TestEndpoint

Spec == Init /\ [][Next]_vars

----------------------------------------------------------------------------
(* Vocabulary of the properties *)

\* the step enters the upstream call of a /brainstorm request
StartStep == pc = "idle" /\ pc' = "upstream"

\* the step is the return (or the raise) of the upstream call
FinishStep == pc = "upstream" /\ pc' = "idle"

\* the step is a /clear-session request
ClearStep == pc = "idle" /\ pc' = "idle" /\ resp'.op = "clear-session"

History(conv, s) == IF s \in DOMAIN conv THEN conv[s] ELSE <<>>

IsPrefix(a, b) == Len(a) <= Len(b) /\ SubSeq(b, 1, Len(a)) = a

Alternates(h) ==
    \A i \in 1..Len(h) : h[i].role = (IF i % 2 = 1 THEN "user" ELSE "assistant")

UserMessage(prompt) == [role |-> "user", content |-> prompt]

----------------------------------------------------------------------------
(* C1: in every reachable state every stored history holds only user and   *)
(* assistant messages, strictly alternating and starting with a user       *)
(* message.                                                                *)
C1_StrictAlternation ==
    \A s \in DOMAIN conversations : Alternates(conversations[s])

(* C2: once no request is in flight, a session to which N turns have been  *)
(* appended since it was created holds exactly 2N messages, the k-th turn  *)
(* being the user message at 2k-1 and the assistant message at 2k.         *)
C2_LengthIsTwiceTurns ==
    pc = "idle" =>
        \A s \in DOMAIN conversations :
            /\ Len(conversations[s]) = 2 * turns[s]
            /\ \A k \in 1..turns[s] :
                   /\ conversations[s][2 * k - 1].role = "user"
                   /\ conversations[s][2 * k].role = "assistant"

(* C3: the message list of every upstream call is the system prompt        *)
(* followed by the history the session had before the request, followed by *)
(* the user message of this request; it is the system prompt followed by   *)
(* the stored history as it stands when the call is made.                  *)
C3_UpstreamMessages ==
    [][StartStep =>
          /\ req'.messages =
                 <<[role |-> "system", content |-> SYSTEM_PROMPT]>>
                 \o History(conversations, req'.session_id)
                 \o <<UserMessage(req'.prompt)>>
          /\ req'.messages =
                 <<[role |-> "system", content |-> SYSTEM_PROMPT]>>
                 \o conversations'[req'.session_id]]_vars

\* a second request on the session id that a first, successful request generated
\* has sent system, user, assistant, user
C3_Witness ==
    /\ pc = "upstream"
    /\ req.sid_in \in Issued(uuidCount)
    /\ Len(req.messages) = 4
    /\ req.messages[1].role = "system"
    /\ req.messages[2].role = "user"
    /\ req.messages[3].role = "assistant"
    /\ req.messages[4] = UserMessage(req.prompt)

(* C4, as the spec states it: a request whose session_id is absent, or not *)
(* in the store, runs on a freshly generated identifier that is not the    *)
(* caller's string, with a history that starts empty, and creates no store *)
(* entry under the caller's identifier.                                    *)
C4_UnknownIdGetsFreshId ==
    [][(StartStep /\ req'.sid_in \notin DOMAIN conversations) =>
          /\ req'.session_id # req'.sid_in
          /\ req'.session_id \notin Issued(uuidCount)
          /\ req'.session_id \notin DOMAIN conversations
          /\ conversations'[req'.session_id] = <<UserMessage(req'.prompt)>>
          /\ req'.sid_in \notin DOMAIN conversations']_vars

(* C4, amended: with no session_id (None or the empty string) the request  *)
(* runs on a freshly generated identifier, never produced before, not in   *)
(* the store and different from what the caller sent, and nothing is       *)
(* stored under the caller's value; with a non-empty session_id that is    *)
(* not in the store the request runs on the caller's identifier itself and *)
(* the store entry is created under it.  In both cases the history starts  *)
(* empty (it holds this request's user message only), no other session is  *)
(* touched, and a success response returns the identifier that was used.   *)
C4_FreshOrAdoptedId ==
    [][/\ (StartStep /\ req'.sid_in \notin DOMAIN conversations) =>
             /\ IF req'.sid_in \in {None, ""}
                THEN /\ req'.session_id \notin Issued(uuidCount)
                     /\ req'.session_id \in Issued(uuidCount')
                     /\ req'.session_id \notin DOMAIN conversations
                     /\ req'.session_id # req'.sid_in
                     /\ req'.sid_in \notin DOMAIN conversations'
                ELSE req'.session_id = req'.sid_in
             /\ conversations'[req'.session_id] = <<UserMessage(req'.prompt)>>
             /\ DOMAIN conversations' = DOMAIN conversations \cup {req'.session_id}
             /\ \A t \in DOMAIN conversations : conversations'[t] = conversations[t]
       /\ (FinishStep /\ resp'.status = 200) => resp'.session_id = req.session_id]_vars

\* a request that named an unknown identifier is inside its upstream call, running
\* on that very identifier
C4_Witness ==
    /\ pc = "upstream"
    /\ req.sid_in \in CallerIds
    /\ req.session_id = req.sid_in
    /\ conversations[req.session_id] = <<UserMessage(req.prompt)>>

(* C5: a request whose session_id is in the store runs on that identifier; *)
(* no identifier is generated, no session is added, the history stored     *)
(* before the request is a prefix of the history after each of its steps,  *)
(* and a success response carries the same session_id.                     *)
C5_ExistingSessionKept ==
    [][/\ (StartStep /\ req'.sid_in \in DOMAIN conversations) =>
             /\ req'.session_id = req'.sid_in
             /\ uuidCount' = uuidCount
             /\ DOMAIN conversations' = DOMAIN conversations
             /\ conversations'[req'.sid_in] =
                    conversations[req'.sid_in] \o <<UserMessage(req'.prompt)>>
       /\ (FinishStep /\ req.sid_in \in DOMAIN conversations) =>
             /\ req.sid_in \in DOMAIN conversations'
             /\ IsPrefix(conversations[req.sid_in], conversations'[req.sid_in])
             /\ resp'.status = 200 => resp'.session_id = req.sid_in]_vars

\* a second turn has succeeded on a session that the caller named
C5_Witness ==
    /\ resp.op = "brainstorm"
    /\ resp.status = 200
    /\ resp.session_id \in DOMAIN conversations
    /\ turns[resp.session_id] = 2
    /\ Len(conversations[resp.session_id]) = 4

(* C6: /clear-session on a stored session removes its key and answers      *)
(* "Session cleared"; a /brainstorm that names an identifier which is not  *)
(* in the store (a cleared one in particular) sends upstream the system    *)
(* prompt and its own user message only.                                   *)
C6_ClearThenFreshHistory ==
    [][/\ (ClearStep /\ resp'.sid_in \in DOMAIN conversations) =>
             /\ resp'.sid_in \notin DOMAIN conversations'
             /\ resp'.status = 200
             /\ resp'.message = "Session cleared"
       /\ (StartStep /\ req'.sid_in \notin DOMAIN conversations /\ req'.sid_in \notin {None, ""}) =>
             /\ req'.messages = <<[role |-> "system", content |-> SYSTEM_PROMPT],
                                  UserMessage(req'.prompt)>>
             /\ conversations'[req'.sid_in] = <<UserMessage(req'.prompt)>>]_vars

\* the request that follows the clear of a session, with the same identifier, is
\* inside its upstream call with two messages
C6_Witness ==
    /\ pc = "upstream"
    /\ resp.op = "clear-session"
    /\ resp.message = "Session cleared"
    /\ req.sid_in = resp.sid_in
    /\ Len(req.messages) = 2

(* C7: /clear-session on an identifier that is not in the store answers    *)
(* 200 "Session not found" and leaves the store as it is; after any        *)
(* /clear-session the identifier is not in the store, so a second clear of *)
(* it is such a no-op.                                                     *)
C7_ClearUnknownIsNoop ==
    [][/\ (ClearStep /\ resp'.sid_in \notin DOMAIN conversations) =>
             /\ resp'.status = 200
             /\ resp'.message = "Session not found"
             /\ conversations' = conversations
       /\ ClearStep => resp'.sid_in \notin DOMAIN conversations']_vars

\* an unknown identifier has been cleared while other sessions are stored
C7_Witness ==
    /\ resp.op = "clear-session"
    /\ resp.message = "Session not found"
    /\ DOMAIN conversations # {}

(* C8: with no client, no request ever is inside the upstream call, and    *)
(* every /brainstorm response is the 500 that names GROQ_API_KEY.          *)
C8_NoClientFailsFast ==
    client = None =>
        /\ pc = "idle"
        /\ req.messages = <<>>
        /\ resp.op = "brainstorm" =>
               /\ resp.status = 500
               /\ resp.detail.arg = "GROQ_API_KEY"
               /\ resp.detail.fmt = "Missing API key: set environment variable {API_KEY_ENV}"
               /\ resp.upstream = "not called"

C8_Witness == client = None /\ resp.op = "brainstorm" /\ resp.status = 500

(* C9: a request whose upstream call raised ends with 400, naming the      *)
(* requested model and the raw text, when the text holds "model" and       *)
(* either "not found" or "decommissioned" (in any letter case), and with   *)
(* the generic 500 carrying the raw text otherwise; never with 200.        *)
C9_UpstreamFailureStatus ==
    (resp.op = "brainstorm" /\ resp.upstream = "raise") =>
        /\ resp.detail.err_str = resp.raised
        /\ IF resp.raised \in {ErrModelDecommissioned, ErrModelNotFoundCaps}
           THEN /\ resp.status = 400
                /\ resp.detail.fmt = "Modele '{model}' non disponible. Erreur: {err_str}"
                /\ resp.detail.arg = (IF groq_model_env = None
                                      THEN "llama-3.3-70b-versatile" ELSE groq_model_env)
           ELSE /\ resp.status = 500
                /\ resp.detail.fmt = "Erreur serveur: {err_str}"

\* the upstream raised "Model Not Found" and the request ended with 400
C9_Witness ==
    /\ resp.op = "brainstorm"
    /\ resp.upstream = "raise"
    /\ resp.raised = ErrModelNotFoundCaps
    /\ resp.status = 400

(* C10: a session leaves the store only in a /clear-session step that      *)
(* names it, enters the store only when a /brainstorm request resolves to  *)
(* it, and while stored its history changes only by one message appended   *)
(* by a /brainstorm request on it.                                         *)
C10_SessionLifecycle ==
    [][/\ \A s \in DOMAIN conversations \ DOMAIN conversations' :
             /\ ClearStep
             /\ resp'.sid_in = s
             /\ resp'.message = "Session cleared"
       /\ \A s \in DOMAIN conversations' \ DOMAIN conversations :
             StartStep /\ req'.session_id = s
       /\ \A s \in DOMAIN conversations \cap DOMAIN conversations' :
             conversations'[s] # conversations[s] =>
                 /\ \/ StartStep /\ req'.session_id = s
                    \/ FinishStep /\ req.session_id = s
                 /\ Len(conversations'[s]) = Len(conversations[s]) + 1
                 /\ IsPrefix(conversations[s], conversations'[s])]_vars

\* a request has failed upstream and the store still holds two sessions
C10_Witness ==
    /\ resp.op = "brainstorm"
    /\ resp.upstream = "raise"
    /\ Cardinality(DOMAIN conversations) >= 2

C12_EmptyPromptRejected ==
    /\ pc = "upstream" => req.prompt # ""
    /\ \A s \in DOMAIN conversations :
           \A i \in 1..Len(conversations[s]) :
               conversations[s][i].role = "user" => conversations[s][i].content # ""

(* C13: no stored message has role system; the message list of an upstream *)
(* call has the system prompt as its first element and nowhere else.       *)
C13_SystemNeverStored ==
    /\ \A s \in DOMAIN conversations :
           \A i \in 1..Len(conversations[s]) :
               conversations[s][i].role \in {"user", "assistant"}
    /\ pc = "upstream" =>
           /\ req.messages[1] = [role |-> "system", content |-> SYSTEM_PROMPT]
           /\ \A i \in 2..Len(req.messages) : req.messages[i].role # "system"

\* a request on a caller-named session is inside its upstream call with the system
\* prompt and three stored messages
C13_Witness ==
    /\ pc = "upstream"
    /\ req.sid_in \in CallerIds
    /\ Len(req.messages) = 4
    /\ Len(conversations[req.session_id]) = 3

(* C14: a /brainstorm request invokes the upstream completion API at most  *)
(* once; a raised upstream error is answered with 400 or 500 carrying that *)
(* error's text after exactly one call.                                    *)
C14_AtMostOneUpstreamCall ==
    /\ req.calls <= 1
    /\ pc = "upstream" => req.calls = 1
    /\ resp.op = "brainstorm" =>
           /\ resp.calls <= 1
           /\ resp.upstream = "raise" =>
                  /\ resp.calls = 1
                  /\ resp.status \in {400, 500}
                  /\ resp.detail.err_str = resp.raised

\* a request whose single upstream call raised was answered with an error
C14_Witness ==
    /\ resp.op = "brainstorm"
    /\ resp.upstream = "raise"
    /\ resp.calls = 1
    /\ resp.status = 500
    /\ pc = "idle"

(* C15: histories are append-only: over every step, the history of a       *)
(* session stored before and after the step is a prefix of its history     *)
(* after the step, unless the step is a /clear-session of that session.    *)
C15_HistoriesAppendOnly ==
    [][\A s \in DOMAIN conversations \cap DOMAIN conversations' :
           IsPrefix(conversations[s], conversations'[s])]_vars

\* a history that grew by three appends, the last request having no choice in its
\* completion
C15_Witness ==
    /\ resp.op = "brainstorm"
    /\ resp.upstream = "no_choice"
    /\ \E s \in DOMAIN conversations :
           /\ Len(conversations[s]) = 3
           /\ conversations[s][2].role = "assistant"

(* C16 (as stated): while a /brainstorm request is inside its upstream     *)
(* call, a second /brainstorm request on the same session can start.       *)
C16_RequestsCanOverlap ==
    (pc = "upstream" /\ TotalMsgs < MaxMsgs) =>
        ENABLED BrainstormStart("idea A", req.session_id)

(* C16 (amended): /brainstorm requests never overlap around the upstream   *)
(* call: while one is inside it the store and the request are untouched,   *)
(* a reply is appended directly after the user message of its own request, *)
(* and no history ever holds two assistant messages in a row.              *)
C16_RequestsRunOneAtATime ==
    [][/\ (pc = "upstream" /\ pc' = "upstream") =>
              /\ conversations' = conversations
              /\ req' = req
       /\ (FinishStep /\ resp'.status = 200) =>
              /\ conversations[req.session_id][Len(conversations[req.session_id])]
                     = UserMessage(req.prompt)
              /\ conversations'[req.session_id]
                     = Append(conversations[req.session_id],
                              [role |-> "assistant", content |-> resp'.response])
       /\ \A s \in DOMAIN conversations' :
              /\ Len(conversations'[s]) >= 1 => conversations'[s][1].role = "user"
              /\ \A i \in 1..(Len(conversations'[s]) - 1) :
                     ~(/\ conversations'[s][i].role = "assistant"
                       /\ conversations'[s][i + 1].role = "assistant")]_vars

\* two requests on one session, handled one after the other: the first failed, the
\* second was answered, so the history reads user, user, assistant
C16_Witness ==
    /\ pc = "idle"
    /\ resp.op = "brainstorm"
    /\ resp.status = 200
    /\ Len(conversations[resp.session_id]) = 3
    /\ conversations[resp.session_id][1].role = "user"
    /\ conversations[resp.session_id][2].role = "user"
    /\ conversations[resp.session_id][3].role = "assistant"

(* C17: when the upstream call of a /brainstorm request fails the store is *)
(* left as it was during the call: the session is stored and its history   *)
(* ends with the user message of the failed request; the next request on   *)
(* a session whose history ends with a user message sends that message     *)
(* upstream, directly before its own.                                      *)
C17_NoRollbackOnFailure ==
    [][/\ (FinishStep /\ resp'.upstream # "reply") =>
              /\ resp'.status \in {400, 500}
              /\ conversations' = conversations
              /\ req.session_id \in DOMAIN conversations'
              /\ conversations'[req.session_id][Len(conversations'[req.session_id])]
                     = UserMessage(req.prompt)
       /\ (/\ StartStep
           /\ req'.session_id \in DOMAIN conversations
           /\ Len(conversations[req'.session_id]) >= 1
           /\ conversations[req'.session_id][Len(conversations[req'.session_id])].role
                  = "user") =>
              /\ req'.messages[Len(req'.messages) - 1]
                     = conversations[req'.session_id][Len(conversations[req'.session_id])]
              /\ req'.messages[Len(req'.messages)] = UserMessage(req'.prompt)]_vars

\* a request failed upstream and the next request on its session is inside its
\* upstream call with both user messages in the message list
C17_Witness ==
    /\ pc = "upstream"
    /\ resp.op = "brainstorm"
    /\ resp.upstream = "raise"
    /\ resp.session_id = None
    /\ Len(req.messages) = 3
    /\ req.messages[2].role = "user"
    /\ req.messages[3].role = "user"

(* C18: a /brainstorm or /clear-session step on session s leaves the       *)
(* history of every other session unchanged, and the message list sent     *)
(* upstream for s is the system prompt followed by the history of s only.  *)
C18_SessionsIsolated ==
    [][/\ StartStep =>
              /\ \A t \in DOMAIN conversations \ {req'.session_id} :
                     t \in DOMAIN conversations' /\ conversations'[t] = conversations[t]
              /\ DOMAIN conversations' = DOMAIN conversations \cup {req'.session_id}
              /\ req'.messages = <<SystemMessage>> \o conversations'[req'.session_id]
       /\ FinishStep =>
              /\ DOMAIN conversations' = DOMAIN conversations
              /\ \A t \in DOMAIN conversations \ {req.session_id} :
                     conversations'[t] = conversations[t]
       /\ ClearStep =>
              /\ DOMAIN conversations' = DOMAIN conversations \ {resp'.sid_in}
              /\ \A t \in DOMAIN conversations' : conversations'[t] = conversations[t]]_vars

\* a request on one session was answered while another session holds messages
C18_Witness ==
    /\ resp.op = "brainstorm"
    /\ resp.status = 200
    /\ \E t \in DOMAIN conversations :
           /\ t # resp.session_id
           /\ Len(conversations[t]) >= 1

(* C19: without a client the store stays as it was at start-up whatever    *)
(* /brainstorm requests are rejected: no session, no generated identifier, *)
(* and an active-session count of 0 in /health and /test.                  *)
C19_RejectedRequestLeavesStore ==
    ClientMissing(client) =>
        /\ DOMAIN conversations = {}
        /\ uuidCount = 0
        /\ pc = "idle"
        /\ resp.op \in {"health", "test"} => resp.count = 0

\* a request was rejected for the missing credential and the store is empty, no
\* identifier generated
C19_Witness ==
    /\ ClientMissing(client)
    /\ resp.op = "brainstorm"
    /\ resp.detail = MissingKeyDetail
    /\ DOMAIN conversations = {}
    /\ uuidCount = 0

(* C20: when the last answer is a /brainstorm success and no request is in *)
(* flight, its session_id is stored and the last message of that history   *)
(* is the assistant message with the returned response as content.         *)
C20_SuccessMeansReplyStored ==
    (pc = "idle" /\ resp.op = "brainstorm" /\ resp.status = 200) =>
        /\ resp.upstream = "reply"
        /\ resp.session_id \in DOMAIN conversations
        /\ Len(conversations[resp.session_id]) >= 2
        /\ conversations[resp.session_id][Len(conversations[resp.session_id])]
               = [role |-> "assistant", content |-> resp.response]

\* a success response with the second reply text, stored as the last message
C20_Witness ==
    /\ pc = "idle"
    /\ resp.op = "brainstorm"
    /\ resp.status = 200
    /\ resp.response = "reply 2"
    /\ conversations[resp.session_id][Len(conversations[resp.session_id])].content
           = "reply 2"


====
